---- MODULE Spec2Model ----
(***************************************************************************)
(* The Tomato scheduler plugin of aiida-aurora                             *)
(* (src/aiida_aurora/scheduler.py): command builders and output parsers    *)
(* of TomatoScheduler.                                                     *)
(*                                                                         *)
(* A Python str is a sequence of one-character strings, so that strip,     *)
(* split, splitlines, the substring tests and the regular expression are   *)
(* computed character by character as the code computes them; a character  *)
(* above U+00FF is the string of its name, "U+XXXX".  Python's             *)
(* None is the one-element sequence <<"None">>, which no str equals.       *)
(* A call either returns a value or raises: [kind |-> "return", value]     *)
(* or [kind |-> "raise", exc].                                            *)
(***************************************************************************)
EXTENDS Integers, Sequences, FiniteSets, TLC

VARIABLES pc, op, args, given, result, log

vars == <<pc, op, args, given, result, log>>

None == <<"None">>

Return(v) == [kind |-> "return", value |-> v]

Raise(e) == [kind |-> "raise", exc |-> e]

(***************************************************************************)
(* str primitives                                                          *)
(***************************************************************************)
\* A character that a TLA+ string cannot hold (any above U+00FF) is written by
\* its name "U+XXXX"; the control characters below have no escape and are
\* written raw.
\* U+000B, line tabulation
VT == ""

\* U+001C, file separator
FS == ""

\* U+001D, group separator
GS == ""

\* U+001E, record separator
RS == ""

\* U+001F, unit separator
US == ""

\* U+0085, next line
NEL == ""

\* U+00A0, no-break space
NBSP == " "

\* the characters c with c.isspace(), Unicode 14.0.0
SpaceChars ==
    {"\t", "\n", VT, "\f", "\r", FS, GS, RS,
     US, " ", NEL, NBSP, "U+1680", "U+2000", "U+2001", "U+2002",
     "U+2003", "U+2004", "U+2005", "U+2006", "U+2007", "U+2008", "U+2009", "U+200A",
     "U+2028", "U+2029", "U+202F", "U+205F", "U+3000"}

\* the characters with Unicode category Nd, Unicode 14.0.0
DigitChars ==
    {"0", "1", "2", "3", "4", "5", "6", "7", "8", "9",
     "U+0660", "U+0661", "U+0662", "U+0663", "U+0664", "U+0665", "U+0666", "U+0667", "U+0668", "U+0669",
     "U+06F0", "U+06F1", "U+06F2", "U+06F3", "U+06F4", "U+06F5", "U+06F6", "U+06F7", "U+06F8", "U+06F9",
     "U+07C0", "U+07C1", "U+07C2", "U+07C3", "U+07C4", "U+07C5", "U+07C6", "U+07C7", "U+07C8", "U+07C9",
     "U+0966", "U+0967", "U+0968", "U+0969", "U+096A", "U+096B", "U+096C", "U+096D", "U+096E", "U+096F",
     "U+09E6", "U+09E7", "U+09E8", "U+09E9", "U+09EA", "U+09EB", "U+09EC", "U+09ED", "U+09EE", "U+09EF",
     "U+0A66", "U+0A67", "U+0A68", "U+0A69", "U+0A6A", "U+0A6B", "U+0A6C", "U+0A6D", "U+0A6E", "U+0A6F",
     "U+0AE6", "U+0AE7", "U+0AE8", "U+0AE9", "U+0AEA", "U+0AEB", "U+0AEC", "U+0AED", "U+0AEE", "U+0AEF",
     "U+0B66", "U+0B67", "U+0B68", "U+0B69", "U+0B6A", "U+0B6B", "U+0B6C", "U+0B6D", "U+0B6E", "U+0B6F",
     "U+0BE6", "U+0BE7", "U+0BE8", "U+0BE9", "U+0BEA", "U+0BEB", "U+0BEC", "U+0BED", "U+0BEE", "U+0BEF",
     "U+0C66", "U+0C67", "U+0C68", "U+0C69", "U+0C6A", "U+0C6B", "U+0C6C", "U+0C6D", "U+0C6E", "U+0C6F",
     "U+0CE6", "U+0CE7", "U+0CE8", "U+0CE9", "U+0CEA", "U+0CEB", "U+0CEC", "U+0CED", "U+0CEE", "U+0CEF",
     "U+0D66", "U+0D67", "U+0D68", "U+0D69", "U+0D6A", "U+0D6B", "U+0D6C", "U+0D6D", "U+0D6E", "U+0D6F",
     "U+0DE6", "U+0DE7", "U+0DE8", "U+0DE9", "U+0DEA", "U+0DEB", "U+0DEC", "U+0DED", "U+0DEE", "U+0DEF",
     "U+0E50", "U+0E51", "U+0E52", "U+0E53", "U+0E54", "U+0E55", "U+0E56", "U+0E57", "U+0E58", "U+0E59",
     "U+0ED0", "U+0ED1", "U+0ED2", "U+0ED3", "U+0ED4", "U+0ED5", "U+0ED6", "U+0ED7", "U+0ED8", "U+0ED9",
     "U+0F20", "U+0F21", "U+0F22", "U+0F23", "U+0F24", "U+0F25", "U+0F26", "U+0F27", "U+0F28", "U+0F29",
     "U+1040", "U+1041", "U+1042", "U+1043", "U+1044", "U+1045", "U+1046", "U+1047", "U+1048", "U+1049",
     "U+1090", "U+1091", "U+1092", "U+1093", "U+1094", "U+1095", "U+1096", "U+1097", "U+1098", "U+1099",
     "U+17E0", "U+17E1", "U+17E2", "U+17E3", "U+17E4", "U+17E5", "U+17E6", "U+17E7", "U+17E8", "U+17E9",
     "U+1810", "U+1811", "U+1812", "U+1813", "U+1814", "U+1815", "U+1816", "U+1817", "U+1818", "U+1819",
     "U+1946", "U+1947", "U+1948", "U+1949", "U+194A", "U+194B", "U+194C", "U+194D", "U+194E", "U+194F",
     "U+19D0", "U+19D1", "U+19D2", "U+19D3", "U+19D4", "U+19D5", "U+19D6", "U+19D7", "U+19D8", "U+19D9",
     "U+1A80", "U+1A81", "U+1A82", "U+1A83", "U+1A84", "U+1A85", "U+1A86", "U+1A87", "U+1A88", "U+1A89",
     "U+1A90", "U+1A91", "U+1A92", "U+1A93", "U+1A94", "U+1A95", "U+1A96", "U+1A97", "U+1A98", "U+1A99",
     "U+1B50", "U+1B51", "U+1B52", "U+1B53", "U+1B54", "U+1B55", "U+1B56", "U+1B57", "U+1B58", "U+1B59",
     "U+1BB0", "U+1BB1", "U+1BB2", "U+1BB3", "U+1BB4", "U+1BB5", "U+1BB6", "U+1BB7", "U+1BB8", "U+1BB9",
     "U+1C40", "U+1C41", "U+1C42", "U+1C43", "U+1C44", "U+1C45", "U+1C46", "U+1C47", "U+1C48", "U+1C49",
     "U+1C50", "U+1C51", "U+1C52", "U+1C53", "U+1C54", "U+1C55", "U+1C56", "U+1C57", "U+1C58", "U+1C59",
     "U+A620", "U+A621", "U+A622", "U+A623", "U+A624", "U+A625", "U+A626", "U+A627", "U+A628", "U+A629",
     "U+A8D0", "U+A8D1", "U+A8D2", "U+A8D3", "U+A8D4", "U+A8D5", "U+A8D6", "U+A8D7", "U+A8D8", "U+A8D9",
     "U+A900", "U+A901", "U+A902", "U+A903", "U+A904", "U+A905", "U+A906", "U+A907", "U+A908", "U+A909",
     "U+A9D0", "U+A9D1", "U+A9D2", "U+A9D3", "U+A9D4", "U+A9D5", "U+A9D6", "U+A9D7", "U+A9D8", "U+A9D9",
     "U+A9F0", "U+A9F1", "U+A9F2", "U+A9F3", "U+A9F4", "U+A9F5", "U+A9F6", "U+A9F7", "U+A9F8", "U+A9F9",
     "U+AA50", "U+AA51", "U+AA52", "U+AA53", "U+AA54", "U+AA55", "U+AA56", "U+AA57", "U+AA58", "U+AA59",
     "U+ABF0", "U+ABF1", "U+ABF2", "U+ABF3", "U+ABF4", "U+ABF5", "U+ABF6", "U+ABF7", "U+ABF8", "U+ABF9",
     "U+FF10", "U+FF11", "U+FF12", "U+FF13", "U+FF14", "U+FF15", "U+FF16", "U+FF17", "U+FF18", "U+FF19",
     "U+104A0", "U+104A1", "U+104A2", "U+104A3", "U+104A4", "U+104A5", "U+104A6", "U+104A7", "U+104A8", "U+104A9",
     "U+10D30", "U+10D31", "U+10D32", "U+10D33", "U+10D34", "U+10D35", "U+10D36", "U+10D37", "U+10D38", "U+10D39",
     "U+11066", "U+11067", "U+11068", "U+11069", "U+1106A", "U+1106B", "U+1106C", "U+1106D", "U+1106E", "U+1106F",
     "U+110F0", "U+110F1", "U+110F2", "U+110F3", "U+110F4", "U+110F5", "U+110F6", "U+110F7", "U+110F8", "U+110F9",
     "U+11136", "U+11137", "U+11138", "U+11139", "U+1113A", "U+1113B", "U+1113C", "U+1113D", "U+1113E", "U+1113F",
     "U+111D0", "U+111D1", "U+111D2", "U+111D3", "U+111D4", "U+111D5", "U+111D6", "U+111D7", "U+111D8", "U+111D9",
     "U+112F0", "U+112F1", "U+112F2", "U+112F3", "U+112F4", "U+112F5", "U+112F6", "U+112F7", "U+112F8", "U+112F9",
     "U+11450", "U+11451", "U+11452", "U+11453", "U+11454", "U+11455", "U+11456", "U+11457", "U+11458", "U+11459",
     "U+114D0", "U+114D1", "U+114D2", "U+114D3", "U+114D4", "U+114D5", "U+114D6", "U+114D7", "U+114D8", "U+114D9",
     "U+11650", "U+11651", "U+11652", "U+11653", "U+11654", "U+11655", "U+11656", "U+11657", "U+11658", "U+11659",
     "U+116C0", "U+116C1", "U+116C2", "U+116C3", "U+116C4", "U+116C5", "U+116C6", "U+116C7", "U+116C8", "U+116C9",
     "U+11730", "U+11731", "U+11732", "U+11733", "U+11734", "U+11735", "U+11736", "U+11737", "U+11738", "U+11739",
     "U+118E0", "U+118E1", "U+118E2", "U+118E3", "U+118E4", "U+118E5", "U+118E6", "U+118E7", "U+118E8", "U+118E9",
     "U+11950", "U+11951", "U+11952", "U+11953", "U+11954", "U+11955", "U+11956", "U+11957", "U+11958", "U+11959",
     "U+11C50", "U+11C51", "U+11C52", "U+11C53", "U+11C54", "U+11C55", "U+11C56", "U+11C57", "U+11C58", "U+11C59",
     "U+11D50", "U+11D51", "U+11D52", "U+11D53", "U+11D54", "U+11D55", "U+11D56", "U+11D57", "U+11D58", "U+11D59",
     "U+11DA0", "U+11DA1", "U+11DA2", "U+11DA3", "U+11DA4", "U+11DA5", "U+11DA6", "U+11DA7", "U+11DA8", "U+11DA9",
     "U+16A60", "U+16A61", "U+16A62", "U+16A63", "U+16A64", "U+16A65", "U+16A66", "U+16A67", "U+16A68", "U+16A69",
     "U+16AC0", "U+16AC1", "U+16AC2", "U+16AC3", "U+16AC4", "U+16AC5", "U+16AC6", "U+16AC7", "U+16AC8", "U+16AC9",
     "U+16B50", "U+16B51", "U+16B52", "U+16B53", "U+16B54", "U+16B55", "U+16B56", "U+16B57", "U+16B58", "U+16B59",
     "U+1D7CE", "U+1D7CF", "U+1D7D0", "U+1D7D1", "U+1D7D2", "U+1D7D3", "U+1D7D4", "U+1D7D5", "U+1D7D6", "U+1D7D7",
     "U+1D7D8", "U+1D7D9", "U+1D7DA", "U+1D7DB", "U+1D7DC", "U+1D7DD", "U+1D7DE", "U+1D7DF", "U+1D7E0", "U+1D7E1",
     "U+1D7E2", "U+1D7E3", "U+1D7E4", "U+1D7E5", "U+1D7E6", "U+1D7E7", "U+1D7E8", "U+1D7E9", "U+1D7EA", "U+1D7EB",
     "U+1D7EC", "U+1D7ED", "U+1D7EE", "U+1D7EF", "U+1D7F0", "U+1D7F1", "U+1D7F2", "U+1D7F3", "U+1D7F4", "U+1D7F5",
     "U+1D7F6", "U+1D7F7", "U+1D7F8", "U+1D7F9", "U+1D7FA", "U+1D7FB", "U+1D7FC", "U+1D7FD", "U+1D7FE", "U+1D7FF",
     "U+1E140", "U+1E141", "U+1E142", "U+1E143", "U+1E144", "U+1E145", "U+1E146", "U+1E147", "U+1E148", "U+1E149",
     "U+1E2F0", "U+1E2F1", "U+1E2F2", "U+1E2F3", "U+1E2F4", "U+1E2F5", "U+1E2F6", "U+1E2F7", "U+1E2F8", "U+1E2F9",
     "U+1E950", "U+1E951", "U+1E952", "U+1E953", "U+1E954", "U+1E955", "U+1E956", "U+1E957", "U+1E958", "U+1E959",
     "U+1FBF0", "U+1FBF1", "U+1FBF2", "U+1FBF3", "U+1FBF4", "U+1FBF5", "U+1FBF6", "U+1FBF7", "U+1FBF8", "U+1FBF9"}

\* the characters str.splitlines() breaks at
LineBreakChars ==
    {"\n", VT, "\f", "\r", FS, GS, RS, NEL,
     "U+2028", "U+2029"}

\* whitespace of str.strip(), str.split() and the regexp class \s
IsSpace(c) == c \in SpaceChars

\* the regexp class \d of a str pattern
IsDigit(c) == c \in DigitChars

\* line boundaries of str.splitlines()
IsLineBreak(c) == c \in LineBreakChars

RECURSIVE lstrip(_)
lstrip(s) == IF s # <<>> /\ IsSpace(Head(s)) THEN lstrip(Tail(s)) ELSE s

RECURSIVE rstrip(_)
rstrip(s) ==
    IF s # <<>> /\ IsSpace(s[Len(s)]) THEN rstrip(SubSeq(s, 1, Len(s) - 1)) ELSE s

strip(s) == rstrip(lstrip(s))

startswith(s, p) == Len(p) <= Len(s) /\ SubSeq(s, 1, Len(p)) = p

\* sub in s
contains(s, sub) ==
    \E i \in 1..(Len(s) - Len(sub) + 1) : SubSeq(s, i, i + Len(sub) - 1) = sub

\* number of leading characters of s that satisfy / do not satisfy a class
RECURSIVE SpanSpace(_)
SpanSpace(s) == IF s # <<>> /\ IsSpace(Head(s)) THEN 1 + SpanSpace(Tail(s)) ELSE 0

RECURSIVE SpanNonSpace(_)
SpanNonSpace(s) ==
    IF s # <<>> /\ ~IsSpace(Head(s)) THEN 1 + SpanNonSpace(Tail(s)) ELSE 0

RECURSIVE SpanDigit(_)
SpanDigit(s) == IF s # <<>> /\ IsDigit(Head(s)) THEN 1 + SpanDigit(Tail(s)) ELSE 0

\* s.split(): the maximal runs of non-whitespace characters
RECURSIVE split(_)
split(s) ==
    LET t == lstrip(s)
        n == SpanNonSpace(t)
    IN  IF t = <<>> THEN <<>>
        ELSE <<SubSeq(t, 1, n)>> \o split(SubSeq(t, n + 1, Len(t)))

\* s.split(c) for a one-character separator: always at least one piece
RECURSIVE split_sep(_, _)
split_sep(s, c) ==
    IF \A i \in 1..Len(s) : s[i] # c THEN <<s>>
    ELSE LET i == CHOOSE k \in 1..Len(s) :
                     s[k] = c /\ \A j \in 1..(k - 1) : s[j] # c
         IN  <<SubSeq(s, 1, i - 1)>> \o split_sep(SubSeq(s, i + 1, Len(s)), c)

\* s.splitlines(): "\r\n" is one boundary, no empty piece after a final boundary
RECURSIVE splitlines(_)
splitlines(s) ==
    IF s = <<>> THEN <<>>
    ELSE IF \A i \in 1..Len(s) : ~IsLineBreak(s[i]) THEN <<s>>
    ELSE LET i == CHOOSE k \in 1..Len(s) :
                     IsLineBreak(s[k]) /\ \A j \in 1..(k - 1) : ~IsLineBreak(s[j])
             n == IF s[i] = "\r" /\ i < Len(s) /\ s[i + 1] = "\n" THEN 2 ELSE 1
         IN  <<SubSeq(s, 1, i - 1)>> \o splitlines(SubSeq(s, i + n, Len(s)))

\* sep.join(parts)
RECURSIVE join(_, _)
join(sep, parts) ==
    IF parts = <<>> THEN <<>>
    ELSE IF Len(parts) = 1 THEN parts[1]
    ELSE parts[1] \o sep \o join(sep, Tail(parts))

RECURSIVE Repeat(_, _)
Repeat(c, n) == IF n = 0 THEN <<>> ELSE <<c>> \o Repeat(c, n - 1)

(***************************************************************************)
(* Module constants                                                        *)
(***************************************************************************)
\* a status token known to tomato is mapped to an AiiDA JobState
_MAP_STATUS_TOMATO_noqw ==
    (<<"q">> :> "QUEUED") @@ (<<"r">> :> "RUNNING") @@ (<<"c">> :> "DONE")
    @@ (<<"c", "e">> :> "DONE") @@ (<<"c", "d">> :> "DONE")

_MAP_STATUS_TOMATO ==
    (<<"q">> :> "QUEUED") @@ (<<"q", "w">> :> "QUEUED") @@ (<<"r">> :> "RUNNING")
    @@ (<<"c">> :> "DONE") @@ (<<"c", "e">> :> "DONE") @@ (<<"c", "d">> :> "DONE")

JOBID == <<"j", "o", "b", "i", "d">>

DividerLen == 42

\* the divider literal tested by _parse_joblist_output
DIVIDER == Repeat("=", DividerLen)

(***************************************************************************)
(* _parse_joblist_output                                                   *)
(***************************************************************************)
\* the filter of the list comprehension
IsJobLine(l) == l # <<>> /\ ~contains(l, JOBID) /\ ~contains(l, DIVIDER)

jobdata_raw(stdout) ==
    LET kept == SelectSeq(splitlines(stdout), IsJobLine)
    IN  [i \in 1..Len(kept) |-> split(kept[i])]

JobInfo(job, state, pipeline) ==
    [job_id |-> job[1], job_state |-> state, pipeline |-> pipeline, raw_data |-> job]

\* the loop over jobdata_raw: job_list and the log so far
RECURSIVE parse_jobs_skip(_, _, _)
parse_jobs_skip(jobs, job_list, lg) ==
    IF jobs = <<>> THEN [res |-> Return(job_list), log |-> lg]
    ELSE LET job == Head(jobs) IN
         IF Len(job) < 2 THEN [res |-> Raise("IndexError"), log |-> lg]
         ELSE LET known == job[2] \in DOMAIN _MAP_STATUS_TOMATO
                  state == IF known THEN _MAP_STATUS_TOMATO[job[2]] ELSE "UNDETERMINED"
                  lg2   == IF known THEN lg ELSE Append(lg, "warning")
              IN  IF Len(job) = 2
                  THEN parse_jobs_skip(Tail(jobs), Append(job_list, JobInfo(job, state, None)), lg2)
                  ELSE IF Len(job) = 3
                  THEN parse_jobs_skip(Tail(jobs), Append(job_list, JobInfo(job, state, job[3])), lg2)
                  ELSE parse_jobs_skip(Tail(jobs), job_list, lg2)

RECURSIVE parse_jobs(_, _, _)
parse_jobs(jobs, job_list, lg) ==
    IF jobs = <<>> THEN [res |-> Return(job_list), log |-> lg]
    ELSE LET job == Head(jobs) IN
         \* job[0] and job[1] are read before the length is looked at
         IF Len(job) < 2 THEN [res |-> Raise("IndexError"), log |-> lg]
         ELSE LET known == job[2] \in DOMAIN _MAP_STATUS_TOMATO
                  state == IF known THEN _MAP_STATUS_TOMATO[job[2]] ELSE "UNDETERMINED"
                  lg2   == IF known THEN lg ELSE Append(lg, "warning")
              IN  IF Len(job) = 2
                  THEN parse_jobs(Tail(jobs), Append(job_list, JobInfo(job, state, None)), lg2)
                  ELSE IF Len(job) = 3
                  THEN parse_jobs(Tail(jobs), Append(job_list, JobInfo(job, state, job[3])), lg2)
                  ELSE [res |-> Raise("ValueError"), log |-> lg2]

_parse_joblist_output(retval, stdout, stderr) ==
    IF retval # 0 THEN [res |-> Raise("SchedulerError"), log |-> <<>>]
    ELSE parse_jobs(jobdata_raw(stdout), <<>>,
                    IF strip(stderr) # <<>> THEN <<"warning">> ELSE <<>>)

(***************************************************************************)
(* _parse_submit_output                                                    *)
(***************************************************************************)
NoMatch == [matched |-> FALSE, jobid |-> <<>>]

\* (jobid\s*=)\s*(?P<jobid>\d+) at the start of t
match_jobid_lax(t) ==
    IF ~startswith(t, JOBID) THEN NoMatch
    ELSE LET a == SubSeq(t, Len(JOBID) + 1, Len(t))
             b == SubSeq(a, SpanSpace(a) + 1, Len(a))
         IN  IF b = <<>> \/ Head(b) # "=" THEN NoMatch
             ELSE LET c == Tail(b)
                      d == SubSeq(c, SpanSpace(c) + 1, Len(c))
                  IN  IF SpanDigit(d) = 0 THEN NoMatch
                      ELSE [matched |-> TRUE, jobid |-> SubSeq(d, 1, SpanDigit(d))]

\* (jobid\s+=)\s+(?P<jobid>\d+) at the start of t: the greedy \s+ and \d+
\* take the whole run, and giving characters back never helps since "=" is
\* no whitespace and a digit is no whitespace
match_jobid(t) ==
    IF ~startswith(t, JOBID) THEN NoMatch
    ELSE LET a == SubSeq(t, Len(JOBID) + 1, Len(t))
             b == SubSeq(a, SpanSpace(a) + 1, Len(a))
         IN  IF SpanSpace(a) = 0 \/ b = <<>> \/ Head(b) # "=" THEN NoMatch
             ELSE LET c == Tail(b)
                      d == SubSeq(c, SpanSpace(c) + 1, Len(c))
                  IN  IF SpanSpace(c) = 0 \/ SpanDigit(d) = 0 THEN NoMatch
                      ELSE [matched |-> TRUE, jobid |-> SubSeq(d, 1, SpanDigit(d))]

\* the rest of the pattern tried after the group (.*:\s*) ended at the colon
\* at index i
AfterColon(line, i) ==
    LET rest == SubSeq(line, i + 1, Len(line))
    IN  match_jobid(SubSeq(rest, SpanSpace(rest) + 1, Len(rest)))

\* _TOMATO_SUBMITTED_REGEXP.match(line): the optional group is tried first,
\* the greedy .* from the last colon backwards, and is skipped only if the
\* pattern fails at every colon
_TOMATO_SUBMITTED_REGEXP(line) ==
    LET colons == {i \in 1..Len(line) : line[i] = ":" /\ AfterColon(line, i).matched}
    IN  IF colons # {}
        THEN AfterColon(line, CHOOSE i \in colons : \A j \in colons : j <= i)
        ELSE match_jobid(line)

\* the for loop over stdout.split('\n'), from the last line backwards
RECURSIVE last_match(_)
last_match(lines) ==
    IF lines = <<>> THEN NoMatch
    ELSE LET m == _TOMATO_SUBMITTED_REGEXP(strip(lines[Len(lines)]))
         IN  IF m.matched THEN m ELSE last_match(SubSeq(lines, 1, Len(lines) - 1))

\* the for loop over stdout.split('\n'): the first line that matches
RECURSIVE first_match(_)
first_match(lines) ==
    IF lines = <<>> THEN NoMatch
    ELSE LET m == _TOMATO_SUBMITTED_REGEXP(strip(Head(lines)))
         IN  IF m.matched THEN m ELSE first_match(Tail(lines))

_parse_submit_output_default(retval, stdout, stderr) ==
    IF retval # 0 THEN [res |-> Raise("SchedulerError"), log |-> <<"error">>]
    ELSE LET lg == IF strip(stderr) # <<>> THEN <<"warning">> ELSE <<>>
             m  == first_match(split_sep(stdout, "\n"))
         IN  [res |-> Return(m.jobid), log |-> IF m.matched THEN lg ELSE Append(lg, "error")]

_parse_submit_output(retval, stdout, stderr) ==
    IF retval # 0 THEN [res |-> Raise("SchedulerError"), log |-> <<"error">>]
    ELSE LET lg == IF strip(stderr) # <<>> THEN <<"warning">> ELSE <<>>
             m  == first_match(split_sep(stdout, "\n"))
         IN  IF m.matched THEN [res |-> Return(m.jobid), log |-> lg]
             ELSE [res |-> Raise("SchedulerError"), log |-> Append(lg, "error")]

(***************************************************************************)
(* _parse_kill_output                                                      *)
(***************************************************************************)
_parse_kill_output_quiet(retval, stdout, stderr) ==
    IF retval # 0 THEN [res |-> Return(FALSE), log |-> <<"error">>]
    ELSE [res |-> Return(strip(stderr) = <<>> /\ strip(stdout) = <<>>),
          log |-> (IF strip(stderr) # <<>> THEN <<"warning">> ELSE <<>>)
                  \o (IF strip(stdout) # <<>> THEN <<"warning">> ELSE <<>>)]

_parse_kill_output(retval, stdout, stderr) ==
    IF retval # 0 THEN [res |-> Return(FALSE), log |-> <<"error">>]
    ELSE [res |-> Return(TRUE),
          log |-> (IF strip(stderr) # <<>> THEN <<"warning">> ELSE <<>>)
                  \o (IF strip(stdout) # <<>> THEN <<"warning">> ELSE <<>>)]

(***************************************************************************)
(* Command builders                                                        *)
(***************************************************************************)
\* s.replace("'", new)
RECURSIVE replace_quote(_, _)
replace_quote(s, new) ==
    IF s = <<>> THEN <<>>
    ELSE (IF Head(s) = "'" THEN new ELSE <<Head(s)>>) \o replace_quote(Tail(s), new)

\* aiida.common.escaping.escape_for_bash with single quotes: the string is
\* put between single quotes and every single quote in it becomes '"'"'
escape_for_bash(s) ==
    <<"'">> \o replace_quote(s, <<"'", "\"", "'", "\"", "'">>) \o <<"'">>

KETCHUP_STATUS == <<"k", "e", "t", "c", "h", "u", "p", " ", "-", "t", " ",
                    "s", "t", "a", "t", "u", "s">>

KETCHUP_CANCEL == <<"k", "e", "t", "c", "h", "u", "p", " ", "-", "t", " ",
                    "c", "a", "n", "c", "e", "l">>

KETCHUP_SUBMIT == <<"k", "e", "t", "c", "h", "u", "p", " ", "-", "t", " ",
                    "s", "u", "b", "m", "i", "t">>

QUEUE == <<"q", "u", "e", "u", "e">>

\* the jobs argument: None, a str, or a list of str
NoJobs == [kind |-> "None", val |-> <<>>]

StrJobs(s) == [kind |-> "str", val |-> s]

ListJobs(l) == [kind |-> "list", val |-> l]

\* truth value of an argument that is None or a str
Truthy(x) == x # None /\ x # <<>>

_get_joblist_command_first(jobs, user) ==
    IF Truthy(user) THEN [res |-> Raise("FeatureNotAvailable"), log |-> <<>>]
    ELSE IF jobs.kind # "None" /\ jobs.val # <<>>
    THEN IF jobs.kind = "str"
         THEN [res |-> Return(join(<<" ">>, <<KETCHUP_STATUS, escape_for_bash(jobs.val)>>)),
               log |-> <<"debug">>]
         ELSE [res |-> Return(join(<<" ">>, <<KETCHUP_STATUS, escape_for_bash(jobs.val[1])>>)),
               log |-> <<"debug">>]
    ELSE [res |-> Return(join(<<" ">>, <<KETCHUP_STATUS, QUEUE>>)), log |-> <<"debug">>]

_get_joblist_command(jobs, user) ==
    IF Truthy(user) THEN [res |-> Raise("FeatureNotAvailable"), log |-> <<>>]
    ELSE IF jobs.kind # "None" /\ jobs.val # <<>>
    THEN IF Len(jobs.val) > 1 THEN [res |-> Raise("FeatureNotAvailable"), log |-> <<>>]
         ELSE IF jobs.kind = "str"
         THEN [res |-> Return(join(<<" ">>, <<KETCHUP_STATUS, escape_for_bash(jobs.val)>>)),
               log |-> <<"debug">>]
         ELSE [res |-> Return(join(<<" ">>,
                   <<KETCHUP_STATUS,
                     join(<<" ">>, [i \in 1..Len(jobs.val) |-> escape_for_bash(jobs.val[i])])>>)),
               log |-> <<"debug">>]
    ELSE [res |-> Return(join(<<" ">>, <<KETCHUP_STATUS, QUEUE>>)), log |-> <<"debug">>]

_get_detailed_job_info_command(job_id) ==
    [res |-> Return(KETCHUP_STATUS \o <<" ">> \o escape_for_bash(job_id)), log |-> <<>>]

_get_submit_command(submit_script) ==
    [res |-> Return(KETCHUP_SUBMIT \o <<" ">> \o submit_script), log |-> <<"info">>]

_get_kill_command(jobid) ==
    [res |-> Return(KETCHUP_CANCEL \o <<" ">> \o jobid), log |-> <<"info">>]

(***************************************************************************)
(* TomatoResource                                                          *)
(***************************************************************************)
\* an empty AttributeDict
EmptyDict == [k \in {} |-> 0]

\* the keyword arguments are not looked at
validate_resources(kwargs) == [res |-> Return(EmptyDict), log |-> <<>>]

accepts_default_mpiprocs_per_machine == [res |-> Return(FALSE), log |-> <<>>]

get_tot_num_mpiprocs == [res |-> Return(1), log |-> <<>>]

(***************************************************************************)
(* Inputs                                                                  *)
(***************************************************************************)
MaxDataLines == 2

\* exit code and stderr of the executed command
Exits == {[retval |-> 0, stderr |-> <<>>],
          [retval |-> 0, stderr |-> <<"e", "r", "r", "\n">>],
          [retval |-> 1, stderr |-> <<"e", "r", "r", "\n">>]}

SeqsUpTo(S, n) == UNION {[1..k -> S] : k \in 0..n}

PIPELINE_A == <<"p", "i", "p", "e", "l", "i", "n", "e", "A">>

StatusTokens ==
    {<<"q">>, <<"q", "w">>, <<"r">>, <<"c">>, <<"c", "e">>, <<"c", "d">>, <<"z", "z">>}

\* the rows of a queue listing, as token sequences: none (a blank line),
\* one to five tokens
Rows ==
    {<<>>, <<<<"7">>>>, <<<<"8">>, <<"c">>>>, <<<<"8">>, <<"q", "w">>>>}
    \cup {<<<<"7">>, s>> : s \in StatusTokens}
    \cup {<<<<"7">>, s, PIPELINE_A>> : s \in {<<"r">>, <<"c">>, <<"z", "z">>}}
    \cup {<<<<"8">>, <<"z", "z">>, PIPELINE_A, <<"x">>>>,
          <<<<"7">>, <<"c">>, PIPELINE_A, <<"x">>, <<"y">>>>}

Headers == {None, <<"j", "o", "b", "i", "d", " ", "s", "t", "a", "t", "u", "s", " ",
                    "p", "i", "p", "e", "l", "i", "n", "e">>}

Dividers == {None, Repeat("=", 3), Repeat("=", DividerLen)}

\* how a listing is laid out: the whitespace between two tokens and the end
\* of a line
Layouts ==
    {[sep |-> <<" ">>, eol |-> <<"\n">>], [sep |-> <<"\t", " ">>, eol |-> <<"\r", "\n">>],
     [sep |-> <<US>>, eol |-> <<RS>>]}

Listings ==
    [header : Headers, divider : Dividers, rows : SeqsUpTo(Rows, MaxDataLines),
     layout : Layouts]

\* the text of a listing: every line is ended
RECURSIVE RenderRows(_, _)
RenderRows(rows, layout) ==
    IF rows = <<>> THEN <<>>
    ELSE join(layout.sep, Head(rows)) \o layout.eol \o RenderRows(Tail(rows), layout)

RenderListing(l) ==
    (IF l.header = None THEN <<>> ELSE l.header \o l.layout.eol)
    \o (IF l.divider = None THEN <<>> ELSE l.divider \o l.layout.eol)
    \o RenderRows(l.rows, l.layout)

MaxSubmitLines == 2

MaxIdLen == 2

MaxJobs == 2

Blank3 == <<" ", " ", " ">>

\* a line of the submit output: prefix key ws1 "=" ws2 digits, or, when key
\* is empty, the text prefix alone
SubmitLine(p, k, w1, w2, d) == [prefix |-> p, key |-> k, ws1 |-> w1, ws2 |-> w2, digits |-> d]

DigitStrings == {<<"7">>, <<"4", "2">>}

SubmitLines ==
    {SubmitLine(p, <<>>, <<>>, <<>>, <<>>) :
        p \in {<<>>, <<"n", "o", " ", "i", "d", " ", "h", "e", "r", "e">>}}
    \cup {SubmitLine(p, JOBID, <<" ">>, <<" ">>, d) :
            p \in {<<"S", "u", "b", "m", "i", "t", "t", "i", "n", "g", ".", ".", ".", " ">>,
                   <<"S", "u", "b", "m", "i", "t", "t", "i", "n", "g", ":", " ">>,
                   <<" ", " ">>},
            d \in DigitStrings}
    \cup {SubmitLine(<<"j", "o", "b", "i", "d", " ", "=", " ", "1", ":", "\t">>,
                     JOBID, <<" ">>, <<"\t">>, <<"7">>)}
    \cup {SubmitLine(<<>>, JOBID, w1, w2, d) :
            w1 \in {<<>>, <<" ">>, Blank3}, w2 \in {<<>>, <<" ">>, Blank3},
            d \in DigitStrings}
    \cup {SubmitLine(<<>>, <<"J", "o", "b", "I", "D">>, <<" ">>, <<" ">>, d) :
            d \in DigitStrings}
    \cup {SubmitLine(<<>>, JOBID, <<VT>>, <<US>>, <<"U+0664", "U+0662">>)}

RenderSubmitLine(l) ==
    IF l.key = <<>> THEN l.prefix
    ELSE l.prefix \o l.key \o l.ws1 \o <<"=">> \o l.ws2 \o l.digits

RECURSIVE RenderSubmit(_)
RenderSubmit(lines) ==
    IF lines = <<>> THEN <<>>
    ELSE RenderSubmitLine(Head(lines)) \o <<"\n">> \o RenderSubmit(Tail(lines))

\* what a kill prints
KillOutputs == {<<>>, <<"\n">>, <<VT, FS>>, <<"o", "k", "\n">>}

\* job ids, including ones with a space, a quote or a shell metacharacter
IdChars == {"4", "2", " ", "'", ";"}

IdStrings == SeqsUpTo(IdChars, MaxIdLen)

\* the job ids put in lists
ListIdStrings == SeqsUpTo({"4", "'"}, MaxIdLen)

JobsArgs ==
    {NoJobs} \cup {StrJobs(s) : s \in IdStrings}
    \cup {ListJobs(l) : l \in SeqsUpTo(ListIdStrings, MaxJobs)}

Users == {None, <<>>, <<"b", "o", "b">>}

\* resource fields a caller may pass, and their values
ResourceKeys == {"num_machines", "num_mpiprocs_per_machine", "tot_num_mpiprocs"}

ResourceKwargs == UNION {[K -> {1, 2}] : K \in SUBSET ResourceKeys}

(***************************************************************************)
(* Specification: a call is drawn, then executed                           *)
(***************************************************************************)
InitJoblist ==
    /\ op = "_parse_joblist_output"
    /\ given \in Listings
    /\ \E e \in Exits :
          args = [retval |-> e.retval, stdout |-> RenderListing(given), stderr |-> e.stderr]

InitSubmit ==
    /\ op = "_parse_submit_output"
    /\ given \in SeqsUpTo(SubmitLines, MaxSubmitLines)
    /\ \E e \in Exits :
          args = [retval |-> e.retval, stdout |-> RenderSubmit(given), stderr |-> e.stderr]

InitKill ==
    /\ op = "_parse_kill_output"
    /\ given = None
    /\ \E rv \in {0, 1, 2}, out \in KillOutputs, err \in KillOutputs :
          args = [retval |-> rv, stdout |-> out, stderr |-> err]

InitJoblistCommand ==
    /\ op = "_get_joblist_command"
    /\ given = None
    /\ \E j \in JobsArgs, u \in Users : args = [jobs |-> j, user |-> u]

InitJobCommand ==
    /\ op \in {"_get_detailed_job_info_command", "_get_kill_command", "_get_submit_command"}
    /\ given = None
    /\ \E s \in IdStrings : args = [job_id |-> s]

InitResource ==
    /\ op \in {"validate_resources", "accepts_default_mpiprocs_per_machine",
               "get_tot_num_mpiprocs"}
    /\ given = None
    /\ \E kw \in ResourceKwargs : args = [kwargs |-> kw]

Init ==
    /\ pc = "call"
    /\ result = Return(None)
    /\ log = <<>>
    /\ \/ InitJoblist
       \/ InitSubmit
       \/ InitKill
       \/ InitJoblistCommand
       \/ InitJobCommand
       \/ InitResource

\* the call drawn by Init is executed: r is what it returns and logs
Call(name, r) ==
    /\ pc = "call"
    /\ op = name
    /\ result' = r.res
    /\ log' = r.log
    /\ pc' = "done"
    /\ UNCHANGED <<op, args, given>>

ParseJoblistOutput ==
    Call("_parse_joblist_output",
         _parse_joblist_output(args.retval, args.stdout, args.stderr))

ParseSubmitOutput ==
    Call("_parse_submit_output",
         _parse_submit_output(args.retval, args.stdout, args.stderr))

ParseKillOutput ==
    Call("_parse_kill_output",
         _parse_kill_output(args.retval, args.stdout, args.stderr))

GetJoblistCommand ==
    Call("_get_joblist_command", _get_joblist_command(args.jobs, args.user))

GetDetailedJobInfoCommand ==
    Call("_get_detailed_job_info_command", _get_detailed_job_info_command(args.job_id))

GetKillCommand ==
    Call("_get_kill_command", _get_kill_command(args.job_id))

GetSubmitCommand ==
    Call("_get_submit_command", _get_submit_command(args.job_id))

ValidateResources ==
    Call("validate_resources", validate_resources(args.kwargs))

AcceptsDefaultMpiprocsPerMachine ==
    Call("accepts_default_mpiprocs_per_machine", accepts_default_mpiprocs_per_machine)

\* on a resource object made from args.kwargs
GetTotNumMpiprocs ==
    Call("get_tot_num_mpiprocs", get_tot_num_mpiprocs)

Next ==
    \/ ParseJoblistOutput
    \/ ParseSubmitOutput
    \/ ParseKillOutput
    \/ GetJoblistCommand
    \/ GetDetailedJobInfoCommand
    \/ GetKillCommand
    \/ GetSubmitCommand
    \/ ValidateResources
    \/ AcceptsDefaultMpiprocsPerMachine
    \/ GetTotNumMpiprocs

Spec == Init /\ [][Next]_vars

(***************************************************************************)
(* Properties                                                              *)
(***************************************************************************)
Done(name) == pc = "done" /\ op = name

Raised(e) == result.kind = "raise" /\ result.exc = e

Returned(v) == result.kind = "return" /\ result.value = v

\* the documented state of a native status token
DocumentedState(tok) ==
    IF tok \in {<<"q">>, <<"q", "w">>} THEN "QUEUED"
    ELSE IF tok = <<"r">> THEN "RUNNING"
    ELSE IF tok \in {<<"c">>, <<"c", "e">>, <<"c", "d">>} THEN "DONE"
    ELSE "UNDETERMINED"

\* the record documented for the row r of a listing
RecordOf(info, r) ==
    /\ info.job_id = r[1]
    /\ info.job_state = DocumentedState(r[2])
    /\ info.pipeline = (IF Len(r) = 3 THEN r[3] ELSE None)

\* one record per row, in the order of the rows
RecordsOf(rows) ==
    /\ result.kind = "return"
    /\ Len(result.value) = Len(rows)
    /\ \A i \in 1..Len(rows) : RecordOf(result.value[i], rows[i])

RowsOfLen(l, lens) == \A i \in 1..Len(l.rows) : Len(l.rows[i]) \in lens

HasRowOfLen(l, lens) == \E i \in 1..Len(l.rows) : Len(l.rows[i]) \in lens

\* a divider made only of "=" characters, of any length
IsDivider(d) == d # None /\ d # <<>> /\ \A i \in 1..Len(d) : d[i] = "="

\* C1: a listing with exit code 0 made of a header, an optional divider of
\* "=" characters of any length and rows of 2 or 3 tokens yields exactly one
\* record per row, in order, with the id, the mapped state and the pipeline
\* (None when absent) of the row.
C1_OneRecordPerDataLine ==
    (/\ Done("_parse_joblist_output")
     /\ args.retval = 0
     /\ given.header # None
     /\ (given.divider = None \/ IsDivider(given.divider))
     /\ RowsOfLen(given, {2, 3}))
    => RecordsOf(given.rows)

\* a line "[prefix] jobid = <digits>" with any prefix
JobidLine(l) == l.key = JOBID /\ l.ws1 # <<>> /\ l.ws2 # <<>>

\* a line "[prefix:] jobid = <digits>": a prefix that is more than
\* whitespace ends with a colon, optionally followed by whitespace
ColonJobidLine(l) ==
    /\ JobidLine(l)
    /\ LET p == strip(l.prefix) IN p = <<>> \/ p[Len(p)] = ":"

FirstLine(lines, P(_)) ==
    lines[CHOOSE i \in 1..Len(lines) : P(lines[i]) /\ \A j \in 1..(i - 1) : ~P(lines[j])]

SubmittedOk == Done("_parse_submit_output") /\ args.retval = 0

DOTS_JOBID_42 ==
    SubmitLine(<<"S", "u", "b", "m", "i", "t", "t", "i", "n", "g", ".", ".", ".", " ">>,
               JOBID, <<" ">>, <<" ">>, <<"4", "2">>)

COLON_JOBID_42 ==
    SubmitLine(<<"S", "u", "b", "m", "i", "t", "t", "i", "n", "g", ":", " ">>,
               JOBID, <<" ">>, <<" ">>, <<"4", "2">>)

\* C2 as stated: with exit code 0 the digits of the first line of the shape
\* "[prefix] jobid = <digits>" are returned, whatever the prefix is; the
\* single line "Submitting... jobid = 42" returns 42.
C2_FirstJobidLineAnyPrefix ==
    (SubmittedOk /\ \E i \in 1..Len(given) : JobidLine(given[i]))
    => Returned(FirstLine(given, JobidLine).digits)

\* C2 as amended: with exit code 0 the digits of the first line of the shape
\* "[prefix:] jobid = <digits>" are returned, the earliest one when several
\* lines match; "Submitting: jobid = 42" alone returns 42 and
\* "Submitting... jobid = 42" alone, whose prefix has no colon, fails with a
\* scheduler error.
C2_FirstColonJobidLine ==
    /\ (SubmittedOk /\ \E i \in 1..Len(given) : ColonJobidLine(given[i]))
       => Returned(FirstLine(given, ColonJobidLine).digits)
    /\ (SubmittedOk /\ given = <<COLON_JOBID_42>>) => Returned(<<"4", "2">>)
    /\ (SubmittedOk /\ given = <<DOTS_JOBID_42>>) => Raised("SchedulerError")

\* two matching lines with different digits: the earlier one is returned
C2_Witness ==
    /\ SubmittedOk
    /\ Len(given) = 2
    /\ ColonJobidLine(given[1]) /\ ColonJobidLine(given[2])
    /\ given[1].digits = <<"4", "2">> /\ given[2].digits = <<"7">>
    /\ Returned(<<"4", "2">>)

\* a stdout of one line "jobid", whitespace, "=", whitespace, digits with no
\* prefix, the key in either case and either whitespace possibly empty
OneKeyLine ==
    /\ SubmittedOk
    /\ Len(given) = 1
    /\ given[1].key # <<>>
    /\ given[1].prefix = <<>>

\* C3 as stated: "jobid=d", "jobid =d", "jobid= d", "jobid   =   d" and
\* "JobID = d" are all accepted and yield d, like "jobid = d".
C3_CaseAndWhitespaceTolerant == OneKeyLine => Returned(given[1].digits)

\* C3 as amended: the pattern is case-sensitive and needs at least one
\* whitespace character on each side of the "=": "jobid = d" and
\* "jobid   =   d" yield d, while "jobid=d", "jobid =d", "jobid= d" and
\* "JobID = d" match nothing and the call fails with a scheduler error.
C3_LowercaseAndSpaced ==
    OneKeyLine =>
        IF given[1].key = JOBID /\ given[1].ws1 # <<>> /\ given[1].ws2 # <<>>
        THEN Returned(given[1].digits)
        ELSE Raised("SchedulerError")

\* "jobid   =   42" yields 42
C3_Witness ==
    /\ OneKeyLine
    /\ given[1] = SubmitLine(<<>>, JOBID, Blank3, Blank3, <<"4", "2">>)
    /\ Returned(<<"4", "2">>)

AllDigits(s) == \A i \in 1..Len(s) : IsDigit(s[i])

\* C4: _parse_submit_output returns a non-empty digit string taken from a
\* stdout line or fails with a scheduler error; it fails whenever the exit
\* code is not 0 and whenever no stdout line has the job-id shape.
C4_NeverSilentlyEmpty ==
    Done("_parse_submit_output") =>
        /\ \/ Raised("SchedulerError")
           \/ /\ result.kind = "return"
              /\ result.value # <<>>
              /\ result.value # None
              /\ AllDigits(result.value)
              /\ \E i \in 1..Len(given) :
                    contains(RenderSubmitLine(given[i]), result.value)
        /\ args.retval # 0 => Raised("SchedulerError")
        /\ (\A i \in 1..Len(given) : ~ColonJobidLine(given[i])) => Raised("SchedulerError")

\* exit code 0 and lines, none of the job-id shape: a scheduler error
C4_Witness ==
    /\ SubmittedOk
    /\ Len(given) = 2
    /\ \A i \in 1..Len(given) : ~ColonJobidLine(given[i])
    /\ given[1].key = <<>> /\ given[1].prefix # <<>>
    /\ Raised("SchedulerError")
    /\ log = <<"error">>

ListedOk == Done("_parse_joblist_output") /\ args.retval = 0

\* the listing has a divider the parser recognises, or none
PlainDivider(l) == l.divider = None \/ l.divider = DIVIDER

\* C5: with exit code 0 and a row of 4 or more tokens the call fails and no
\* job list is returned, wherever the row sits and whatever its status is;
\* the failure is the malformed-output error (ValueError) when every other
\* line is well formed.
C5_FourTokensFailWholeCall ==
    (ListedOk /\ HasRowOfLen(given, {4, 5, 6}))
    => /\ result.kind = "raise"
       /\ (PlainDivider(given) /\ RowsOfLen(given, {0, 2, 3, 4, 5, 6})) => Raised("ValueError")

\* a well-formed row, then a row of four tokens: ValueError, no records
C5_Witness ==
    /\ ListedOk
    /\ given.header # None
    /\ given.divider = DIVIDER
    /\ Len(given.rows) = 2
    /\ Len(given.rows[1]) = 2 /\ Len(given.rows[2]) = 4
    /\ Raised("ValueError")

\* C6: a row with a single token fails with the same malformed-output error
\* (ValueError) as a row of 4 or more tokens.
C6_OneTokenIsMalformedOutput ==
    (/\ ListedOk
     /\ PlainDivider(given)
     /\ RowsOfLen(given, {1, 2, 3})
     /\ HasRowOfLen(given, {1}))
    => Raised("ValueError")

\* the rows that are not blank lines
RECURSIVE NonBlank(_)
NonBlank(rows) ==
    IF rows = <<>> THEN <<>>
    ELSE (IF Head(rows) = <<>> THEN <<>> ELSE <<Head(rows)>>) \o NonBlank(Tail(rows))

\* C7: q and qw map to QUEUED, r to RUNNING, c, ce and cd to DONE and every
\* other token to UNDETERMINED without raising: a listing of rows of 2 or 3
\* tokens is returned whole, whatever the status tokens are.
C7_StatusMappingTotal ==
    (ListedOk /\ PlainDivider(given) /\ RowsOfLen(given, {0, 2, 3}))
    => RecordsOf(NonBlank(given.rows))

\* an unrecognized status next to a known one: both records are returned
C7_Witness ==
    /\ ListedOk
    /\ Len(given.rows) = 2
    /\ given.rows[1] = <<<<"7">>, <<"z", "z">>>>
    /\ given.rows[2] = <<<<"8">>, <<"q", "w">>>>
    /\ result.kind = "return"
    /\ Len(result.value) = 2
    /\ result.value[1].job_state = "UNDETERMINED"
    /\ result.value[2].job_state = "QUEUED"

\* C8: _parse_kill_output returns False when the exit code is not 0 and True
\* when it is 0, whatever stdout and stderr contain, and never raises.
C8_KillResultIsExitCode ==
    Done("_parse_kill_output") => Returned(args.retval = 0)

\* a successful kill with output: logged, still True
C8_Witness ==
    /\ Done("_parse_kill_output")
    /\ args.retval = 0
    /\ strip(args.stdout) # <<>>
    /\ log = <<"warning">>
    /\ Returned(TRUE)

KETCHUP_STATUS_QUEUE ==
    <<"k", "e", "t", "c", "h", "u", "p", " ", "-", "t", " ", "s", "t", "a", "t", "u", "s",
      " ", "q", "u", "e", "u", "e">>

\* C9: two or more job ids fail with FeatureNotAvailable and no command; no
\* job ids (None or empty) and no user give "ketchup -t status queue".
C9_ListCommand ==
    Done("_get_joblist_command") =>
        /\ (args.jobs.kind = "list" /\ Len(args.jobs.val) >= 2)
           => Raised("FeatureNotAvailable")
        /\ (args.jobs.val = <<>> /\ args.user \in {None, <<>>})
           => Returned(KETCHUP_STATUS_QUEUE)

\* two job ids and no user: FeatureNotAvailable
C9_Witness ==
    /\ Done("_get_joblist_command")
    /\ args.jobs.kind = "list"
    /\ Len(args.jobs.val) = 2
    /\ args.user = None
    /\ Raised("FeatureNotAvailable")

\* C10: the single-job list command, the detailed-info command and the kill
\* command carry the job id as escape_for_bash(id), never raw.
C10_JobIdEscaped ==
    /\ (/\ Done("_get_joblist_command")
        /\ args.jobs.kind = "list"
        /\ Len(args.jobs.val) = 1
        /\ args.user = None)
       => Returned(KETCHUP_STATUS \o <<" ">> \o escape_for_bash(args.jobs.val[1]))
    /\ Done("_get_detailed_job_info_command")
       => Returned(KETCHUP_STATUS \o <<" ">> \o escape_for_bash(args.job_id))
    /\ Done("_get_kill_command")
       => Returned(KETCHUP_CANCEL \o <<" ">> \o escape_for_bash(args.job_id))

\* C11: validate_resources rejects, with a validation error, every call that
\* supplies a resource field and accepts only a call with none;
\* get_tot_num_mpiprocs is the constant 1.
C11_ResourceFieldsRejected ==
    /\ Done("validate_resources")
       => IF DOMAIN args.kwargs # {} THEN result.kind = "raise" ELSE result.kind = "return"
    /\ Done("get_tot_num_mpiprocs") => Returned(1)

\* C12: when exactly one job id is requested, as a one-element list or as a
\* bare non-empty string of any length, _get_joblist_command returns
\* "ketchup -t status <escaped id>" and does not raise.
C12_OneJobIdAccepted ==
    (/\ Done("_get_joblist_command")
     /\ args.user = None
     /\ \/ args.jobs.kind = "list" /\ Len(args.jobs.val) = 1
        \/ args.jobs.kind = "str" /\ args.jobs.val # <<>>)
    => Returned(KETCHUP_STATUS \o <<" ">>
                \o escape_for_bash(IF args.jobs.kind = "list" THEN args.jobs.val[1]
                                   ELSE args.jobs.val))

====
